---- MODULE Spec2Model ----
(***************************************************************************)
(* Model of brokenlinkchecker-dashboard.py: the recursive crawl engine     *)
(* (crawl, check_link, extract_links, is_internal), and the start block    *)
(* that runs it and aggregates the raw results (dedup, summary, report).   *)
(*                                                                         *)
(* The web is the environment.  A page's link set is fixed the first time  *)
(* the page is served (variable web) and served unchanged afterwards, so   *)
(* every run is a run over one link graph; the graph ranges over all       *)
(* graphs on URLs that carry at most web_size links.  Each GET and each    *)
(* HEAD may fail or succeed independently of earlier ones; a run has at    *)
(* most MaxFaults failing requests to URLs that could have been served.    *)
(***************************************************************************)
EXTENDS Integers, Sequences, FiniteSets, TLC

\* ---------------------------------------------------------------- bounds

\* most links (page, link) the web of one run carries
MaxEdges == 3
\* most failing requests (GET or HEAD) to servable URLs in one run
MaxFaults == 1
\* longest raw result list handed to the aggregator on its own (SpecAgg)
MaxRaw == 3

\* ------------------------------------------------------------------ URLs

\* absolute URLs as urljoin returns them.  s is the URL typed by the user,
\* a, b, c are pages of the same host, x is on another host, m has no
\* network location at all (mailto:, javascript:, tel:).
URLs == {"s", "a", "b", "c", "x", "m"}

\* urlparse(url).netloc
netloc(url) ==
    CASE url = "x" -> "external.test"
      [] url = "m" -> ""
      [] OTHER     -> "example.com"

\* the absent status code (Python None); a present code c is <<c>>
None == <<>>

Some(c) == <<c>>

\* status codes a server may answer with: one on each side of the test of
\* line 18, 400 being the smallest code that is not below 400
StatusCodes == {200, 400}

\* ------------------------------------------------------- pure functions

\* is_internal without the host comparison
is_internal_any(url, host) == TRUE

\* is_internal(url, base_netloc)
is_internal(url, host) == netloc(url) = "" \/ netloc(url) = host

\* check_link taking 400 itself for reachable
check_link_upto400(url) ==
    {<<None, FALSE>>} \cup
    (IF netloc(url) = "" THEN {}
     ELSE {<<Some(c), c <= 400>> : c \in StatusCodes})

\* the (status_code, ok) pairs check_link(url) can return: requests.head
\* raises (always for a URL without host) or a response arrives
check_link(url) ==
    {<<None, FALSE>>} \cup
    (IF netloc(url) = "" THEN {}
     ELSE {<<Some(c), c < 400>> : c \in StatusCodes})

\* options=[0, 1, 2, 3] of the depth selectbox
DepthOptions == {0, 1, 2, 3}

\* f"{status_code}" if status_code else "ERR"
status_str(status_code) ==
    IF status_code = None THEN "ERR" ELSE ToString(status_code[1])

Min(i, j) == IF i < j THEN i ELSE j

Max(i, j) == IF i > j THEN i ELSE j

\* ----------------------------------------------------------------- state

VARIABLES
    base_url,        \* the URL typed in the sidebar
    base_netloc,     \* urlparse(base_url).netloc
    max_depth,       \* the selected crawl depth
    web,             \* pages served so far: url -> its link set
    visited,         \* set of URLs crawl has entered
    results,         \* raw list of (url, status_code, ok, note)
    stack,           \* call stack of crawl invocations, innermost last
    progress_state,  \* <<current, total>>
    progress_bar,    \* <<numerator, denominator>> last shown by the bar
    pc,              \* position in the start block
    fetches,         \* history: GETs performed inside crawl, in order
    live_log,        \* history: notifications written to the live log
    unique_results,  \* deduplicated results (list) after "Remove duplicates"
    summary,         \* <<total, working, broken>> of the summary block
    report,          \* what generate_html_report computed
    final_results,   \* the list bound to results at line 144
    faults,          \* bookkeeping: failing requests so far
    web_size         \* bookkeeping: most links the web of this run carries

vars == <<base_url, base_netloc, max_depth, web, visited, results, stack,
          progress_state, progress_bar, pc, fetches, live_log,
          unique_results, summary, report, final_results, faults,
          web_size>>

crawlVars == <<web, visited, results, stack, progress_state, progress_bar,
               fetches, live_log>>

aggVars == <<unique_results, summary, report, final_results>>

inputVars == <<base_url, base_netloc, max_depth, web_size>>

\* ------------------------------------------------------------ call stack

Top == stack[Len(stack)]

Frame(url, depth) ==
    [url |-> url, depth |-> depth, at |-> "enter", links |-> {}, link |-> url]

SetTop(f) == [stack EXCEPT ![Len(stack)] = f]

Pop == SubSeq(stack, 1, Len(stack) - 1)

Running(at) == pc = "crawl" /\ stack # <<>> /\ Top.at = at

\* -------------------------------------------------------------- the web

\* every URL the web has shown so far
Mentioned ==
    {base_url} \cup DOMAIN web \cup UNION {web[u] : u \in DOMAIN web}

\* number of links the web has shown so far
Edges == Cardinality({e \in (DOMAIN web) \X URLs : e[2] \in web[e[1]]})

\* pages of the seed's host are interchangeable: they are named a, b, c in
\* the order the web first shows them
Canonical(S) ==
    /\ "c" \in S => "b" \in S
    /\ "b" \in S => "a" \in S

\* the link sets extract_links can return for the page requests.get(url)
\* delivers (after raise_for_status); none when the GET can only fail: a
\* URL without host is never served
Pages(url) ==
    IF netloc(url) = "" THEN {}
    ELSE IF url \in DOMAIN web THEN {web[url]}
    ELSE LET room == web_size - Edges
             seen == Mentioned
         IN  {L \in SUBSET URLs :
                 Cardinality(L) <= room /\ Canonical(seen \cup L)}

Reveal(url, L) == IF url \in DOMAIN web THEN web ELSE web @@ (url :> L)

\* a request to url fails: one more of the run's MaxFaults, unless the URL
\* has no host and the request could only fail
Fault(url) ==
    IF netloc(url) = "" THEN faults' = faults
    ELSE faults < MaxFaults /\ faults' = faults + 1

\* visited.add(url) left out
MarkVisitedForgotten(url) == visited

\* line 41: visited.add(url)
MarkVisited(url) == visited \cup {url}

\* ------------------------------------------------------------------ Init

\* the state at line 122, the web of the run carrying at most size links
Start(size) ==
    /\ base_url = "s"
    /\ base_netloc = netloc(base_url)
    /\ max_depth \in DepthOptions
    /\ web = <<>>
    /\ visited = {}
    /\ results = <<>>
    /\ stack = <<>>
    /\ progress_state = <<0, 100>>
    /\ progress_bar = <<0, 100>>
    /\ pc = "estimate"
    /\ fetches = <<>>
    /\ live_log = <<>>
    /\ unique_results = <<>>
    /\ summary = <<0, 0, 0>>
    /\ report = <<0, 0, 0>>
    /\ final_results = <<>>
    /\ faults = 0
    /\ web_size = size

Init == Start(MaxEdges)

\* ------------------------------------------------- start block: estimate

\* lines 125-130: the first GET of base_url sizes the progress bar
EstimateOk ==
    /\ pc = "estimate"
    /\ \E L \in Pages(base_url) :
          /\ web' = Reveal(base_url, L)
          /\ progress_state' = <<progress_state[1], Max(Cardinality(L), 1)>>
    /\ pc' = "call"
    /\ UNCHANGED <<faults, inputVars, visited, results, stack, progress_bar, fetches,
                   live_log, aggVars>>

\* lines 131-132
EstimateFail ==
    /\ pc = "estimate"
    /\ progress_state' = <<progress_state[1], 1>>
    /\ pc' = "call"
    /\ Fault(base_url)
    /\ UNCHANGED <<inputVars, web, visited, results, stack, progress_bar,
                   fetches, live_log, aggVars>>

\* line 135: crawl(base_url, base_netloc, visited, results, 0, depth, ...)
StartCrawl ==
    /\ pc = "call"
    /\ stack' = <<Frame(base_url, 0)>>
    /\ pc' = "crawl"
    /\ UNCHANGED <<faults, inputVars, web, visited, results, progress_state,
                   progress_bar, fetches, live_log, aggVars>>

\* ----------------------------------------------------------------- crawl

\* the guard of crawl without its depth test
TerminalNoDepth(url, depth) == url \in visited

\* the guard of crawl with the depth bound taken as exclusive
TerminalExclusive(url, depth) == depth >= max_depth \/ url \in visited

\* line 39: the guard of crawl
Terminal(url, depth) == depth > max_depth \/ url \in visited

\* lines 39-40: return immediately
EnterReturn ==
    /\ Running("enter")
    /\ Terminal(Top.url, Top.depth)
    /\ stack' = Pop
    /\ UNCHANGED <<faults, inputVars, web, visited, results, progress_state,
                   progress_bar, pc, fetches, live_log, aggVars>>

\* lines 39-41: visited.add(url)
EnterVisit ==
    /\ Running("enter")
    /\ ~Terminal(Top.url, Top.depth)
    /\ visited' = MarkVisited(Top.url)
    /\ stack' = SetTop([Top EXCEPT !.at = "fetch"])
    /\ UNCHANGED <<faults, inputVars, web, results, progress_state, progress_bar, pc,
                   fetches, live_log, aggVars>>

\* a page error recorded like a failed link check
PageErrorNoNote(url) == <<url, None, FALSE, "">>

\* the record appended at line 46
PageError(url) == <<url, None, FALSE, "PAGE ERROR">>

\* a page error that is not caught: it unwinds every invocation
FetchFailAbort ==
    /\ Running("fetch")
    /\ fetches' = Append(fetches, [url |-> Top.url, depth |-> Top.depth, ok |-> FALSE])
    /\ results' = Append(results, PageError(Top.url))
    /\ live_log' = Append(live_log,
                     [url |-> Top.url, label |-> "BROKEN", text |-> "PAGE ERROR"])
    /\ stack' = <<>>
    /\ Fault(Top.url)
    /\ UNCHANGED <<inputVars, web, visited, progress_state, progress_bar, pc,
                   aggVars>>

\* a page error that takes the URL out of visited again, for a later retry
FetchFailRetry ==
    /\ Running("fetch")
    /\ fetches' = Append(fetches, [url |-> Top.url, depth |-> Top.depth, ok |-> FALSE])
    /\ results' = Append(results, PageError(Top.url))
    /\ live_log' = Append(live_log,
                     [url |-> Top.url, label |-> "BROKEN", text |-> "PAGE ERROR"])
    /\ stack' = Pop
    /\ visited' = visited \ {Top.url}
    /\ Fault(Top.url)
    /\ UNCHANGED <<inputVars, web, progress_state, progress_bar, pc, aggVars>>

\* lines 42-49: the GET raises, or raise_for_status does
FetchFail ==
    /\ Running("fetch")
    /\ fetches' = Append(fetches, [url |-> Top.url, depth |-> Top.depth, ok |-> FALSE])
    /\ results' = Append(results, PageError(Top.url))
    /\ live_log' = Append(live_log,
                     [url |-> Top.url, label |-> "BROKEN", text |-> "PAGE ERROR"])
    /\ stack' = Pop
    /\ Fault(Top.url)
    /\ UNCHANGED <<inputVars, web, visited, progress_state, progress_bar, pc,
                   aggVars>>

\* lines 42-44, 51-52: the page arrives and its links are extracted
FetchOk ==
    /\ Running("fetch")
    /\ \E L \in Pages(Top.url) :
          /\ web' = Reveal(Top.url, L)
          /\ stack' = SetTop([Top EXCEPT !.at = "loop", !.links = L])
    /\ fetches' = Append(fetches, [url |-> Top.url, depth |-> Top.depth, ok |-> TRUE])
    /\ UNCHANGED <<faults, inputVars, visited, results, progress_state, progress_bar,
                   pc, live_log, aggVars>>

\* the test of line 54 also gating the check by scope
UnvisitedInternal(link) == link \notin visited /\ is_internal(link, base_netloc)

\* the test of line 54 also skipping every link results has a record of
UnvisitedUnrecorded(link) ==
    link \notin visited /\ \A i \in 1..Len(results) : results[i][1] # link

\* a loop without the test of line 54: every link is checked
UnvisitedAlways(link) == TRUE

\* line 54: the test that lets a link through to its check
Unvisited(link) == link \notin visited

\* a loop that takes a link without consuming it
RemainingStuck(links, link) == links

\* line 53: the links the for loop has still to take after link
Remaining(links, link) == links \ {link}

\* lines 53-54: the loop takes the next link (a set is iterated in no
\* particular order) and skips it when it is in visited
NextLink ==
    /\ Running("loop")
    /\ \E link \in Top.links :
          stack' = SetTop([Top EXCEPT
                              !.links = Remaining(Top.links, link),
                              !.link = link,
                              !.at = IF Unvisited(link) THEN "check" ELSE "loop"])
    /\ UNCHANGED <<faults, inputVars, web, visited, results, progress_state,
                   progress_bar, pc, fetches, live_log, aggVars>>

\* lines 55-56: status_code, ok = check_link(link); results.append(...)
CheckLink ==
    /\ Running("check")
    /\ \E r \in check_link(Top.link) :
          /\ results' = Append(results, <<Top.link, r[1], r[2], "">>)
          /\ IF r[2] THEN faults' = faults ELSE Fault(Top.link)
    /\ stack' = SetTop([Top EXCEPT !.at = "notify"])
    /\ UNCHANGED <<inputVars, web, visited, progress_state, progress_bar, pc,
                   fetches, live_log, aggVars>>

\* a check that is recorded without log line and without progress
NotifySilent ==
    /\ Running("notify")
    /\ stack' = SetTop([Top EXCEPT !.at = "recurse"])
    /\ UNCHANGED <<faults, inputVars, web, visited, results, pc, fetches, aggVars,
                   live_log, progress_state, progress_bar>>

\* lines 57-67: the live log line and the progress bar for the link just
\* recorded
Notify ==
    /\ Running("notify")
    /\ LET rec == results[Len(results)]
       IN  live_log' = Append(live_log,
                         [url |-> Top.link,
                          label |-> IF rec[3] THEN "OK" ELSE "BROKEN",
                          text |-> status_str(rec[2])])
    /\ progress_state' = <<progress_state[1] + 1, progress_state[2]>>
    /\ progress_bar' = <<Min(progress_state[1] + 1, progress_state[2]),
                         progress_state[2]>>
    /\ stack' = SetTop([Top EXCEPT !.at = "recurse"])
    /\ UNCHANGED <<faults, inputVars, web, visited, results, pc, fetches, aggVars>>

\* the crawl of an internal link queued behind the invocations under way,
\* the loop going on with the next link first
RecurseDeferred ==
    /\ Running("recurse")
    /\ stack' = IF is_internal(Top.link, base_netloc)
                THEN <<Frame(Top.link, Top.depth + 1)>>
                         \o SetTop([Top EXCEPT !.at = "loop"])
                ELSE SetTop([Top EXCEPT !.at = "loop"])
    /\ UNCHANGED <<faults, inputVars, web, visited, results, progress_state,
                   progress_bar, pc, fetches, live_log, aggVars>>

\* lines 68-69: recurse into an internal link, else go on with the loop
Recurse ==
    /\ Running("recurse")
    /\ stack' = IF is_internal(Top.link, base_netloc)
                THEN Append(SetTop([Top EXCEPT !.at = "loop"]),
                            Frame(Top.link, Top.depth + 1))
                ELSE SetTop([Top EXCEPT !.at = "loop"])
    /\ UNCHANGED <<faults, inputVars, web, visited, results, progress_state,
                   progress_bar, pc, fetches, live_log, aggVars>>

\* line 53 exhausted: the invocation returns
LoopReturn ==
    /\ Running("loop")
    /\ Top.links = {}
    /\ stack' = Pop
    /\ UNCHANGED <<faults, inputVars, web, visited, results, progress_state,
                   progress_bar, pc, fetches, live_log, aggVars>>

\* line 138: the top-level call has returned
CrawlFinished ==
    /\ pc = "crawl"
    /\ stack = <<>>
    /\ pc' = "dedup"
    /\ UNCHANGED <<faults, inputVars, crawlVars, aggVars>>

\* ------------------------------------------------- start block: results

\* a dict whose assignment keeps the value a key already has
DictSetKeepFirst(d, k, v) ==
    IF \E i \in 1..Len(d) : d[i][1] = k THEN d ELSE Append(d, <<k, v>>)

\* a list taken for the dict: every assignment appends
DictSetAppend(d, k, v) == Append(d, <<k, v>>)

\* a dict whose assignment to a key already there moves the key to the end
DictSetMoveToEnd(d, k, v) ==
    Append(SelectSeq(d, LAMBDA e : e[1] # k), <<k, v>>)

\* unique_results[url] = value on a dict kept as a list of <<key, value>> in
\* insertion order: a key already there keeps its place and takes the value
DictSet(d, k, v) ==
    IF \E i \in 1..Len(d) : d[i][1] = k
    THEN [i \in 1..Len(d) |-> IF d[i][1] = k THEN <<k, v>> ELSE d[i]]
    ELSE Append(d, <<k, v>>)

\* lines 141-143: the dict after the loop over rs
RECURSIVE UniqueResults(_)
UniqueResults(rs) ==
    IF rs = <<>> THEN <<>>
    ELSE LET r == rs[Len(rs)]
         IN  DictSet(UniqueResults(SubSeq(rs, 1, Len(rs) - 1)),
                     r[1], <<r[2], r[3], r[4]>>)

\* line 144: [(url, *unique_results[url]) for url in unique_results]
Rebuild(d) == [i \in 1..Len(d) |-> <<d[i][1], d[i][2][1], d[i][2][2], d[i][2][3]>>]

\* sum(1 for _, _, ok, _ in rs if not ok)
Broken(rs) == Cardinality({i \in 1..Len(rs) : ~rs[i][3]})

\* lines 147-149 and lines 72-74: <<total, working, broken>> of a list
Counts(rs) ==
    LET total == Len(rs)
        broken == Broken(rs)
        working == total - broken
    IN  <<total, working, broken>>

\* lines 140-144: "Remove duplicates"
RemoveDuplicates ==
    /\ pc = "dedup"
    /\ unique_results' = UniqueResults(results)
    /\ final_results' = Rebuild(unique_results')
    /\ pc' = "summary"
    /\ UNCHANGED <<faults, inputVars, crawlVars, summary, report>>

\* lines 146-149: "Summary"
Summary ==
    /\ pc = "summary"
    /\ summary' = Counts(final_results)
    /\ pc' = "report"
    /\ UNCHANGED <<faults, inputVars, crawlVars, unique_results, final_results,
                   report>>

\* the report called with the raw list
ReportInputRaw == results

\* the list generate_html_report is called with at line 165
ReportInput == final_results

\* lines 84-88: one item of the report
ReportItem(r) ==
    [label |-> IF r[3] THEN "OK" ELSE "BROKEN", url |-> r[1],
     status |-> status_str(r[2]), note |-> r[4]]

\* line 165, lines 71-90: generate_html_report(base_url, base_netloc, results)
generate_html_report(rs) ==
    [counts |-> Counts(rs), items |-> [i \in 1..Len(rs) |-> ReportItem(rs[i])]]

Report ==
    /\ pc = "report"
    /\ report' = generate_html_report(ReportInput)
    /\ pc' = "done"
    /\ UNCHANGED <<faults, inputVars, crawlVars, unique_results, final_results,
                   summary>>

Next ==
    \/ EstimateOk
    \/ EstimateFail
    \/ StartCrawl
    \/ EnterReturn
    \/ EnterVisit
    \/ FetchFail
    \/ FetchOk
    \/ NextLink
    \/ CheckLink
    \/ Notify
    \/ Recurse
    \/ LoopReturn
    \/ CrawlFinished
    \/ RemoveDuplicates
    \/ Summary
    \/ Report

Spec == Init /\ [][Next]_vars

\* the webs of one more link: the smallest web on which a page is met first
\* at depth 2 and again at depth 1 and links on to a fourth page has 4 links
InitDeep == Start(MaxEdges + 1)

SpecDeep == InitDeep /\ [][Next]_vars

\* ------------------------------------- the aggregator on any raw results

\* the records crawl appends: link checks (line 56) and page errors (line 46)
RawRecords ==
    {<<u, r[1], r[2], "">> : u \in {"a", "x"}, r \in check_link("x")}
    \cup {PageError(u) : u \in {"a", "x"}}

RawLists == UNION {[1..n -> RawRecords] : n \in 0..MaxRaw}

InitAgg ==
    /\ base_url = "s"
    /\ base_netloc = netloc(base_url)
    /\ max_depth \in {0}
    /\ web = <<>>
    /\ visited = {}
    /\ results \in RawLists
    /\ stack = <<>>
    /\ progress_state = <<0, 100>>
    /\ progress_bar = <<0, 100>>
    /\ pc = "dedup"
    /\ fetches = <<>>
    /\ live_log = <<>>
    /\ unique_results = <<>>
    /\ summary = <<0, 0, 0>>
    /\ report = <<0, 0, 0>>
    /\ final_results = <<>>
    /\ faults = 0
    /\ web_size = 0

NextAgg == RemoveDuplicates \/ Summary \/ Report

SpecAgg == InitAgg /\ [][NextAgg]_vars

\* the program is one sequential thread that is never suspended for good:
\* every request returns (timeouts of 5 and 10 s) and the interpreter takes
\* the next step whenever there is one
\* liveness is checked on the webs of up to MaxEdges - 1 links
InitFair == Start(MaxEdges - 1)

SpecFair == InitFair /\ [][Next]_vars /\ WF_vars(Next)

\* ===================================================================
\* Properties
\* ===================================================================

\* the top-level crawl call has returned
Returned == pc \in {"dedup", "summary", "report", "done"}

\* GETs crawl performed for url
FetchesOf(url) == {i \in 1..Len(fetches) : fetches[i].url = url}

\* pages crawl fetched successfully
OkPages == {fetches[i].url : i \in {j \in 1..Len(fetches) : fetches[j].ok}}

\* results holds a link check record for url
Checked(url) == \E i \in 1..Len(results) : results[i][1] = url /\ results[i][4] = ""

External(url) == netloc(url) # "" /\ netloc(url) # base_netloc

\* C1: in one crawl run no URL is fetched as a page (GET inside crawl) more
\* than once, whatever the link graph and the request outcomes
C1_FetchedAtMostOnce ==
    \A u \in URLs : Cardinality(FetchesOf(u)) <= 1

\* the crawl has returned from a web in which a fetched page is linked from
\* two other fetched pages
C1_Witness ==
    /\ Returned
    /\ \E u, p, q \in OkPages :
          /\ Cardinality({u, p, q}) = 3
          /\ u \in web[p] /\ u \in web[q]

\* C2: a link with a non-empty host other than the origin host is never
\* fetched as a page and never added to visited (no invocation gets past the
\* guard for it), and once the crawl has returned every such link of a
\* fetched page has a link check record
C2_ExternalNeverFetched ==
    /\ \A u \in URLs : External(u) =>
          /\ u \notin visited
          /\ FetchesOf(u) = {}
    /\ Returned =>
          \A p \in OkPages : \A l \in web[p] : External(l) => Checked(l)

\* an external link of a fetched page was checked and the crawl has returned
C2_Witness ==
    /\ Returned
    /\ \E p \in OkPages : \E l \in web[p] : External(l) /\ Checked(l)

\* C3: on every link graph, cycles and self-links included, and for every
\* max_depth the program can select, the top-level crawl call eventually
\* returns, every single request returning
C3_CrawlReturns == <>Returned

\* the crawl returned from a web with a cycle: two fetched pages link to
\* each other
C3_Witness ==
    /\ Returned
    /\ \E u, v \in OkPages : u # v /\ v \in web[u] /\ u \in web[v]

\* C4 (state part): every page fetch happens at a depth of at most
\* max_depth, and with max_depth = 0 only the seed is fetched
C4_FetchDepth ==
    \A i \in 1..Len(fetches) :
        /\ fetches[i].depth <= max_depth
        /\ max_depth = 0 => fetches[i].url = base_url

\* C4 (step part): an invocation with depth > max_depth returns at once and
\* changes neither visited nor results
C4_DeepNoOp ==
    (Running("enter") /\ Top.depth > max_depth) =>
        /\ visited' = visited
        /\ results' = results
        /\ fetches' = fetches
        /\ stack' = Pop

\* C4: every page fetch happens in an invocation of depth <= max_depth; a
\* crawl with max_depth = 0 fetches no page but the seed; an invocation with
\* depth > max_depth changes neither visited nor results
C4_DepthBound == [](C4_FetchDepth) /\ [][C4_DeepNoOp]_vars

\* with max_depth = 0 the seed page carried an internal link, which was
\* checked and whose invocation (depth 1) has returned
C4_Witness ==
    /\ max_depth = 0
    /\ Returned
    /\ \E l \in URLs :
          /\ l # base_url
          /\ is_internal(l, base_netloc)
          /\ base_url \in OkPages /\ l \in web[base_url]
          /\ Checked(l)

\* C5 (step part): an invocation at depth exactly max_depth on a URL not yet
\* visited goes on to fetch it
C5_Enters ==
    (Running("enter") /\ Top.depth = max_depth /\ Top.url \notin visited) =>
        (Running("fetch")' /\ Top'.url = Top.url /\ Len(stack') = Len(stack))

\* C5 (state part): while an invocation at depth max_depth loops over the
\* links of its page, the page was fetched, and every link it is through
\* with is in visited (it was skipped) or else has a check record and was
\* not fetched
C5_LinksCheckedNotFetched ==
    (Running("loop") /\ Top.depth = max_depth) =>
        /\ \E i \in FetchesOf(Top.url) : fetches[i].ok /\ fetches[i].depth = max_depth
        /\ \A l \in web[Top.url] \ Top.links :
              \/ l \in visited
              \/ Checked(l) /\ FetchesOf(l) = {}

RECURSIVE Within(_)
Within(k) ==
    IF k = 0 THEN {base_url}
    ELSE LET R == Within(k - 1)
         IN  R \cup {l \in URLs :
                      /\ is_internal(l, base_netloc)
                      /\ \E p \in R \cap DOMAIN web : l \in web[p]}

AllFetchesOk == \A i \in 1..Len(fetches) : fetches[i].ok

\* C6: when every page fetch succeeds, every internal URL within max_depth
\* links of the seed has been fetched as a page once the crawl has returned
C6_AllWithinDepthFetched ==
    (Returned /\ AllFetchesOk) => Within(max_depth) \subseteq OkPages

\* results holds a record for url
Recorded(url) == \E i \in 1..Len(results) : results[i][1] = url

\* C7 as claimed: every link extracted from a successfully fetched page has
\* a record in results once the crawl has returned
C7_AllLinksChecked ==
    Returned => \A p \in OkPages : \A l \in web[p] : Checked(l)

\* C7 amended: every link extracted from a successfully fetched page, the
\* seed URL excepted, has a check record once the crawl has returned, be it
\* internal or external; while a page is looped over, each link the loop is
\* through with has a check record or is in visited
C7_AllLinksButSeedChecked ==
    /\ Returned =>
          \A p \in OkPages : \A l \in web[p] \ {base_url} : Checked(l)
    /\ Running("loop") =>
          \A l \in web[Top.url] \ Top.links : Checked(l) \/ l \in visited

\* the crawl returned having checked an internal and an external link, and
\* having met a link to the seed
C7_Witness ==
    /\ Returned
    /\ \E p \in OkPages : base_url \in web[p]
    /\ \E p \in OkPages : \E l \in web[p] : External(l) /\ Checked(l)
    /\ \E p \in OkPages : \E l \in web[p] :
          l # base_url /\ is_internal(l, base_netloc) /\ Checked(l)

\* C8: when the seed's page fetch fails, crawl returns with results holding
\* the one record (seed, absent, false, "PAGE ERROR") and visited = {seed}
C8_SeedFailure ==
    (Returned /\ fetches # <<>> /\ ~fetches[1].ok) =>
        /\ results = << <<base_url, None, FALSE, "PAGE ERROR">> >>
        /\ visited = {base_url}
        /\ Len(fetches) = 1 /\ fetches[1].url = base_url

\* the crawl has returned after the seed's fetch failed, the estimate having
\* shown that the seed page carries links
C8_Witness ==
    /\ Returned
    /\ fetches # <<>> /\ ~fetches[1].ok
    /\ base_url \in DOMAIN web /\ web[base_url] # {}

\* the last record of url in rs (0 when there is none)
LastIndex(rs, url) ==
    IF \E i \in 1..Len(rs) : rs[i][1] = url
    THEN CHOOSE i \in 1..Len(rs) :
            rs[i][1] = url /\ \A j \in (i + 1)..Len(rs) : rs[j][1] # url
    ELSE 0

\* the deduplicated result classifies url as broken
ReportedBroken(url) ==
    \E i \in 1..Len(final_results) :
        final_results[i][1] = url /\ ~final_results[i][3]

\* C9 as claimed: every URL with a failed page fetch or link check at some
\* point of the crawl is classified broken in the deduplicated result
C9_EveryFailureBroken ==
    pc = "done" =>
        \A i \in 1..Len(results) : ~results[i][3] => ReportedBroken(results[i][1])

\* C9 amended: every failed page fetch and every failed link check leaves a
\* record with reachable = false in the raw results, and the deduplicated
\* result classifies a URL as broken exactly when the last record for it is
\* such a failure
C9_LastFailureBroken ==
    /\ \A i \in 1..Len(fetches) :
          ~fetches[i].ok => \E j \in 1..Len(results) :
                               results[j] = <<fetches[i].url, None, FALSE, "PAGE ERROR">>
    /\ pc = "done" =>
          \A u \in URLs : Recorded(u) =>
              (ReportedBroken(u) <=> ~results[LastIndex(results, u)][3])

\* the run is done, a URL was checked twice with differing outcomes
C9_Witness ==
    /\ pc = "done"
    /\ \E i, j \in 1..Len(results) :
          i < j /\ results[i][1] = results[j][1] /\ results[i][3] # results[j][3]

\* C10: after aggregation working + broken = total = number of entries of
\* the deduplicated result, broken counting the entries with reachable false,
\* in the summary and in the report
C10_CountsAddUp ==
    LET n == Len(final_results)
        bad == Cardinality({i \in 1..n : final_results[i][3] = FALSE})
        good == Cardinality({i \in 1..n : final_results[i][3] = TRUE})
    IN  /\ pc \in {"report", "done"} => summary = <<n, good, bad>>
        /\ pc = "done" => report.counts = <<n, good, bad>>

\* aggregation is done on a raw list with a repeated URL, with working and
\* broken entries in the deduplicated result
C10_Witness ==
    /\ pc = "done"
    /\ Len(final_results) < Len(results)
    /\ summary[2] > 0 /\ summary[3] > 0

\* the "Remove duplicates" block has run
Deduped == pc \in {"summary", "report", "done"}

\* the URLs of the records of rs
UrlsOf(rs) == {rs[i][1] : i \in 1..Len(rs)}

\* the first record of url in rs
FirstIndex(rs, url) == CHOOSE i \in 1..Len(rs) :
                          rs[i][1] = url /\ \A j \in 1..(i - 1) : rs[j][1] # url

\* C11: the deduplicated result holds exactly one entry for each distinct
\* URL of the raw results: no URL twice, none lost, none added
C11_OneEntryPerUrl ==
    Deduped =>
        /\ \A i, j \in 1..Len(final_results) :
              final_results[i][1] = final_results[j][1] => i = j
        /\ UrlsOf(final_results) = UrlsOf(results)

\* deduplication has run on a raw list in which one URL occurs twice and
\* another once
C11_Witness ==
    /\ Deduped
    /\ Len(results) = 3 /\ Len(final_results) = 2

\* C12: deduplication is last-write-wins: the entry of each URL carries the
\* status, reachable and note of the last raw record for that URL
C12_LastWriteWins ==
    Deduped =>
        \A i \in 1..Len(final_results) :
            final_results[i] = results[LastIndex(results, final_results[i][1])]

\* deduplication has run on a raw list in which two records for one URL
\* differ in reachable
C12_Witness ==
    /\ Deduped
    /\ \E i, j \in 1..Len(results) :
          /\ i < j
          /\ results[i][1] = results[j][1]
          /\ results[i][3] /\ ~results[j][3]

\* C13: the deduplicated result lists the distinct URLs in the order of
\* their first occurrence in the raw results
C13_FirstOccurrenceOrder ==
    Deduped =>
        \A i, j \in 1..Len(final_results) :
            i < j => FirstIndex(results, final_results[i][1])
                       < FirstIndex(results, final_results[j][1])

\* deduplication has run on a raw list u, v, u whose second record for u
\* differs from the first
C13_Witness ==
    /\ Deduped
    /\ Len(results) = 3
    /\ results[1][1] = results[3][1]
    /\ results[1][1] # results[2][1]
    /\ results[1] # results[3]

\* the page fetch of the innermost invocation fails in this step
FetchFails ==
    /\ Running("fetch")
    /\ Len(fetches') = Len(fetches) + 1
    /\ ~fetches'[Len(fetches')].ok

\* C14 (step part): when the page fetch of an invocation below the top-level
\* one fails, a PAGE ERROR record for its URL is appended, no link set is
\* extracted, and control is back in the loop of the invocation that recursed
\* into it, whose frame and remaining links are as it left them
C14_FailureStep ==
    (FetchFails /\ Len(stack) >= 2) =>
        /\ results' = Append(results, <<Top.url, None, FALSE, "PAGE ERROR">>)
        /\ web' = web
        /\ visited' = visited
        /\ stack' = Pop
        /\ Running("loop")'
        /\ Top'.url # Top.url

\* C14 (state part): a non-seed page whose fetch failed has no extracted
\* links; once the crawl has returned, every link but the seed of every
\* fetched page has a check record, and every internal link of a page
\* fetched above the depth bound was recursed into and fetched, in spite of
\* failures of other branches
C14_OthersGoOn ==
    /\ \A i \in 1..Len(fetches) :
          (~fetches[i].ok /\ fetches[i].url # base_url) =>
              fetches[i].url \notin DOMAIN web
    /\ Returned =>
          \A i \in 1..Len(fetches) : fetches[i].ok =>
              \A l \in web[fetches[i].url] \ {base_url} :
                  /\ Checked(l)
                  /\ (is_internal(l, base_netloc) /\ fetches[i].depth < max_depth)
                        => FetchesOf(l) # {}

\* C14: a page fetch failure of a non-seed page ends only that branch: the
\* PAGE ERROR record is appended, none of the page's links is extracted or
\* checked, and the invocation that recursed into it goes on with the
\* remaining links of its own page
C14_FailureEndsBranch == [](C14_OthersGoOn) /\ [][C14_FailureStep]_vars

\* the crawl has returned; the fetch of a non-seed page failed and the page
\* that linked to it went on to check another link and to fetch it
C14_Witness ==
    /\ Returned
    /\ \E k \in 1..Len(results) : \E j \in 1..Len(fetches) :
          /\ results[k][4] = "PAGE ERROR" /\ results[k][1] # base_url
          /\ fetches[j].url = results[k][1]
          /\ k < Len(results) /\ results[k + 1][4] = ""
          /\ j < Len(fetches) /\ fetches[j + 1].ok

\* the link check records of results, in order
CheckRecords == SelectSeq(results, LAMBDA r : r[4] = "")

\* the link notifications of the live log, in order
LinkLines == SelectSeq(live_log, LAMBDA n : n.text # "PAGE ERROR")

\* C15: the notifications of checked links are the check records, one for
\* one and in the same order: the k-th notification is for the URL and
\* outcome of the k-th check record, the progress counter counts them, and
\* only between the append of line 56 and the lines 57-67 that follow it is
\* the last record still without its notification; so whenever a page is
\* fetched or a link checked every earlier check has been notified once
C15_NotifiedOnceInOrder ==
    LET cs == CheckRecords
        ls == LinkLines
    IN  /\ Len(ls) = IF Running("notify") THEN Len(cs) - 1 ELSE Len(cs)
        /\ \A k \in 1..Len(ls) :
              /\ ls[k].url = cs[k][1]
              /\ ls[k].label = (IF cs[k][3] THEN "OK" ELSE "BROKEN")
              /\ ls[k].text = status_str(cs[k][2])
        /\ progress_state[1] = Len(ls)
        /\ (Running("enter") /\ Len(stack) >= 2) =>
              /\ cs # <<>> /\ Len(ls) = Len(cs)
              /\ ls[Len(ls)].url = Top.url

\* the crawl has returned; a link was checked, notified and then fetched as
\* a page, and a further link was checked after it
C15_Witness ==
    /\ Returned
    /\ \E j \in 1..Len(fetches) : \E k \in 1..Len(LinkLines) :
          /\ fetches[j].depth >= 1
          /\ LinkLines[k].url = fetches[j].url
          /\ k < Len(LinkLines)

\* requests issued so far inside crawl: page fetches and link checks
Requests == Len(fetches) + Len(CheckRecords)

\* C16 (state part): the invocations under way form one chain from the seed:
\* each but the innermost is suspended in the call of line 69, on the link
\* the next one crawls, one level deeper
C16_OneChain ==
    pc = "crawl" =>
        /\ stack # <<>> => (stack[1].url = base_url /\ stack[1].depth = 0)
        /\ \A i \in 1..(Len(stack) - 1) :
              /\ stack[i].at = "loop"
              /\ stack[i + 1].url = stack[i].link
              /\ stack[i + 1].depth = stack[i].depth + 1

\* C16 (step part): only the innermost invocation runs: a step leaves every
\* suspended invocation as it is (the links it has still to take included),
\* enters or leaves at most one invocation, and issues at most one request,
\* a fetch of the innermost invocation's URL or a check of its current link
C16_InnermostOnly ==
    pc = "crawl" =>
        /\ \A i \in 1..(Len(stack) - 1) : i <= Len(stack') => stack'[i] = stack[i]
        /\ Len(stack') \in {Len(stack) - 1, Len(stack), Len(stack) + 1}
        /\ Requests' \in {Requests, Requests + 1}
        /\ Len(fetches') > Len(fetches) =>
              (Running("fetch") /\ fetches'[Len(fetches')].url = Top.url)
        /\ Len(CheckRecords') > Len(CheckRecords) =>
              (Running("check") /\ results'[Len(results')][1] = Top.link)

\* C16: traversal is depth-first and sequential: the crawl of a checked
\* internal link completes before the next link of the same page is taken,
\* and no two requests are in flight at once
C16_DepthFirstSequential == [](C16_OneChain) /\ [][C16_InnermostOnly]_vars

\* an invocation entered by recursion checks a link of its page while the
\* page that linked to it has links still to take
C16_Witness ==
    /\ Running("check")
    /\ Len(stack) >= 2
    /\ stack[Len(stack) - 1].links # {}

\* C17: every record of results is well formed: a link check record (empty
\* note) has reachable = true exactly when its status code is present and
\* below 400, an absent status going with reachable = false; a PAGE ERROR
\* record has absent status and reachable = false; there is no other note
C17_RecordsWellFormed ==
    \A i \in 1..Len(results) :
        LET status_code == results[i][2]
            ok == results[i][3]
            note == results[i][4]
        IN  /\ results[i][1] \in URLs
            /\ ok \in BOOLEAN
            /\ status_code = None \/ (Len(status_code) = 1 /\ status_code[1] \in Int)
            /\ note \in {"", "PAGE ERROR"}
            /\ note = "" => (ok <=> (status_code # None /\ status_code[1] < 400))
            /\ note = "PAGE ERROR" => (status_code = None /\ ~ok)

\* the crawl has returned with a PAGE ERROR record, a check record with a
\* status below 400 and a check record with status 400 or above or none
C17_Witness ==
    /\ Returned
    /\ \E i, j, k \in 1..Len(results) :
          /\ results[i][4] = "PAGE ERROR"
          /\ results[j][4] = "" /\ results[j][3]
          /\ results[k][4] = "" /\ results[k][2] # None /\ results[k][2][1] >= 400

\* the records of results for url
RecordsOf(url) == {i \in 1..Len(results) : results[i][1] = url}

\* the successfully fetched pages whose link set holds url
LinkersOf(url) == {p \in OkPages : url \in web[p]}

\* C18: a URL that is never marked visited gets one check record from every
\* fetched page that links to it, so results holds as many records for it as
\* fetched pages reference it, two when two do; such a URL is external, or
\* internal and met only at depth max_depth + 1
C18_RecordedOncePerLinker ==
    Returned =>
        \A u \in URLs \ visited :
            /\ Cardinality(RecordsOf(u)) = Cardinality(LinkersOf(u))
            /\ \A i \in RecordsOf(u) : results[i][4] = ""
            /\ LinkersOf(u) # {} =>
                  \/ External(u)
                  \/ \A j \in 1..Len(fetches) :
                        fetches[j].url \in LinkersOf(u) => fetches[j].depth = max_depth

\* the crawl has returned; a URL that is not in visited is linked from two
\* fetched pages and has two check records
C18_Witness ==
    /\ Returned
    /\ \E u \in URLs \ visited :
          /\ Cardinality(LinkersOf(u)) = 2
          /\ \E i, j \in RecordsOf(u) :
                i < j /\ results[i][4] = "" /\ results[j][4] = ""

\* C19: a PAGE ERROR record is the last record of its URL: no record for
\* the URL of a failed page fetch follows it in results, and after
\* deduplication the one entry of that URL is (url, absent, false,
\* "PAGE ERROR"), whatever an earlier link check of the URL gave
C19_PageErrorLast ==
    \A i \in 1..Len(results) : results[i][4] = "PAGE ERROR" =>
        LET u == results[i][1]
        IN  /\ \A j \in (i + 1)..Len(results) : results[j][1] # u
            /\ \E k \in 1..Len(fetches) : fetches[k].url = u /\ ~fetches[k].ok
            /\ Deduped =>
                  \A k \in 1..Len(final_results) : final_results[k][1] = u =>
                      final_results[k] = <<u, None, FALSE, "PAGE ERROR">>
            /\ Deduped => \E k \in 1..Len(final_results) : final_results[k][1] = u

\* deduplication has run on the results of a crawl in which the check of a
\* link succeeded and the page fetch of the same URL then failed
C19_Witness ==
    /\ Deduped
    /\ \E i, j \in 1..Len(results) :
          /\ i < j
          /\ results[i][1] = results[j][1]
          /\ results[i][4] = "" /\ results[i][3]
          /\ results[j][4] = "PAGE ERROR"

\* C20 (step part): results changes only by the append of one record; a
\* link check record is appended only for a URL that is not in visited, and
\* the record appended for a URL in visited is the PAGE ERROR record of the
\* invocation that is fetching that URL
C20_NoCheckOfVisited ==
    results' # results =>
        /\ Len(results') = Len(results) + 1
        /\ SubSeq(results', 1, Len(results)) = results
        /\ LET r == results'[Len(results')]
           IN  /\ r[4] = "" => r[1] \notin visited
               /\ r[1] \in visited =>
                     /\ Running("fetch") /\ Top.url = r[1]
                     /\ r = <<r[1], None, FALSE, "PAGE ERROR">>

\* C20 (state part): the seed is in visited from the first step of the
\* crawl on, and a record of the seed URL is the PAGE ERROR record of its
\* failed page fetch
C20_SeedOnlyAsPageError ==
    /\ (fetches # <<>> \/ results # <<>>) => base_url \in visited
    /\ \A i \in 1..Len(results) : results[i][1] = base_url =>
          /\ results[i] = <<base_url, None, FALSE, "PAGE ERROR">>
          /\ fetches[1].url = base_url /\ ~fetches[1].ok

\* C20: no link check is recorded for a URL already in visited; after a URL
\* is added to visited the only record still appended for it is its own
\* PAGE ERROR record; the seed URL is in results only if its page fetch
\* failed, also when pages link back to it
C20_VisitedNotChecked == [](C20_SeedOnlyAsPageError) /\ [][C20_NoCheckOfVisited]_vars

\* the crawl has returned; the seed page was fetched, another fetched page
\* links back to the seed, and results has records but none of the seed
C20_Witness ==
    /\ Returned
    /\ base_url \in OkPages
    /\ \E p \in OkPages \ {base_url} : base_url \in web[p]
    /\ results # <<>>
    /\ \A i \in 1..Len(results) : results[i][1] # base_url

====
